---- MODULE Spec2Model ----
(***************************************************************************)
(* Model of the TheBus Alexa skill (src/gouldner/TheBus/src/index.js).    *)
(*                                                                         *)
(* The file holds two generations of the skill, one after the other.      *)
(* Function declarations are hoisted and the later assignment to          *)
(* TheBus.prototype.intentHandlers and to processXml wins, so the code     *)
(* that runs is the second generation (lines 298-586); it is the one      *)
(* modelled here.                                                          *)
(*                                                                         *)
(* One invocation handles one turn.  A bus intent may leave one http.get   *)
(* in flight, whose 'data', 'end' and 'error' events arrive later.         *)
(***************************************************************************)
EXTENDS Integers, Sequences, FiniteSets, TLC

VARIABLES
    turn,       \* the inbound request of the current invocation
    status,     \* "idle" | "returned" | "threw": the invocation's handler;
                \* "parsed" | "translated" when processXml is run on its own
    fetch,      \* [issued, errorEmitted, errorMessage, endEmitted]: the
                \* http.get of the turn and the events it has emitted
    body,       \* the body accumulated by res.on('data'): "" or "data"
    feed,       \* what parser.parseString handed to its callback at 'end'
    narration,  \* the pieces of the speechOutput processXml returned
    arrivalsAfter, \* the feed's arrival elements as processXml left them
    routes,     \* the implicit global routes of index.js
    outcomes,   \* the calls made on response: ask / tell / tellWithCard
    requests,   \* the stop numbers of the URLs given to http.get
    flights     \* when invocations overlap: for each of them its http.get,
                \* the closure of its response callback and what it said

vars ==
    <<turn, status, fetch, body, feed, narration, arrivalsAfter, routes,
      outcomes, requests, flights>>

-----------------------------------------------------------------------------
(* Bounds of the model *)

MaxSlotLen == 2     \* longest Stop slot string, in characters
MaxFeedLen == 1     \* most arrival elements of a feed fetched in a turn
MaxArrivals == 2    \* most arrival elements of a feed given to processXml alone
MaxConcurrentArrivals == 2  \* most arrival elements of a feed fetched by
                            \* one of two overlapping invocations

-----------------------------------------------------------------------------
(* Text.  A JavaScript string is a TLA+ string; a string whose characters *)
(* the code inspects (parseInt, replace) is a sequence of one-character   *)
(* strings.  speechOutput is kept as the sequence of the operands of the   *)
(* code's + operators, and Flatten is the resulting string.                *)

RECURSIVE Flatten(_)
Flatten(pieces) ==
    IF pieces = <<>> THEN "" ELSE Head(pieces) \o Flatten(Tail(pieces))

RECURSIVE JoinWith(_, _)
\* Array.prototype.toString / join(","): how an xml2js array value is
\* converted when it is concatenated to a string
JoinWith(arr, sep) ==
    IF arr = <<>> THEN ""
    ELSE IF Len(arr) = 1 THEN arr[1]
    ELSE arr[1] \o sep \o JoinWith(Tail(arr), sep)

ArrayToString(arr) == JoinWith(arr, ",")

Count(pieces, s) == Cardinality({i \in 1..Len(pieces) : pieces[i] = s})

-----------------------------------------------------------------------------
(* JavaScript numbers as parseInt returns them *)

NaN == [nan |-> TRUE, n |-> 0]
Num(n) == [nan |-> FALSE, n |-> n]
isNaN(v) == v.nan

\* A character outside ASCII is written as one element "U+" followed by the
\* four hexadecimal digits of its code point, so that the module is plain
\* ASCII and reads the same under every locale.
\*
\* StrWhiteSpaceChar, the 25 characters parseInt skips at the start of the
\* string: WhiteSpace (tab, vertical tab, which stands in its string as
\* the character U+000B itself, form feed, space, no-break space,
\* the byte order mark and the space separators of Unicode) and
\* LineTerminator (line feed, carriage return, line and paragraph separator).
WhiteSpace ==
    {"\t", "\n", "", "\f", "\r", " ",
     "U+00A0", "U+1680",
     "U+2000", "U+2001", "U+2002", "U+2003", "U+2004", "U+2005", "U+2006",
     "U+2007", "U+2008", "U+2009", "U+200A",
     "U+2028", "U+2029", "U+202F", "U+205F", "U+3000", "U+FEFF"}

DigitValue(c) ==
    CASE c = "0" -> 0 [] c = "1" -> 1 [] c = "2" -> 2 [] c = "3" -> 3
      [] c = "4" -> 4 [] c = "5" -> 5 [] c = "6" -> 6 [] c = "7" -> 7
      [] c = "8" -> 8 [] c = "9" -> 9
      [] c \in {"a", "A"} -> 10 [] c \in {"b", "B"} -> 11
      [] c \in {"c", "C"} -> 12 [] c \in {"d", "D"} -> 13
      [] c \in {"e", "E"} -> 14 [] c \in {"f", "F"} -> 15
      [] OTHER -> 36

RECURSIVE TrimStart(_)
TrimStart(s) ==
    IF s # <<>> /\ Head(s) \in WhiteSpace THEN TrimStart(Tail(s)) ELSE s

RECURSIVE DigitPrefix(_, _)
\* the longest prefix of s made of digits of the radix
DigitPrefix(s, radix) ==
    IF s # <<>> /\ DigitValue(Head(s)) < radix
    THEN <<Head(s)>> \o DigitPrefix(Tail(s), radix)
    ELSE <<>>

RECURSIVE DigitsValue(_, _, _)
DigitsValue(ds, radix, acc) ==
    IF ds = <<>> THEN acc
    ELSE DigitsValue(Tail(ds), radix, acc * radix + DigitValue(Head(ds)))

\* parseInt(string) with no radix argument (ECMAScript 18.2.5): leading white
\* space is skipped, a sign is taken, a 0x / 0X prefix selects radix 16, the
\* longest digit prefix is converted and the rest of the string is ignored.
parseIntChars(s) ==
    LET t == TrimStart(s)
        neg == t # <<>> /\ Head(t) = "-"
        u == IF t # <<>> /\ Head(t) \in {"+", "-"} THEN Tail(t) ELSE t
        hex == Len(u) >= 2 /\ u[1] = "0" /\ u[2] \in {"x", "X"}
        radix == IF hex THEN 16 ELSE 10
        w == IF hex THEN Tail(Tail(u)) ELSE u
        ds == DigitPrefix(w, radix)
        v == DigitsValue(ds, radix, 0)
    IN  IF ds = <<>> THEN NaN ELSE Num(IF neg THEN 0 - v ELSE v)

-----------------------------------------------------------------------------
(* The Stop slot of an intent: intent.slots.Stop *)

AbsentSlot == [tag |-> "absent", chars |-> <<>>]    \* no Stop key in slots
UndefSlot == [tag |-> "undefined", chars |-> <<>>]  \* Stop: {name: "Stop"}
NullSlot == [tag |-> "null", chars |-> <<>>]        \* Stop: {value: null}
StrSlot(s) == [tag |-> "string", chars |-> s]       \* Stop: {value: "..."}

\* ToString of the slot value, as parseInt applies it to its argument
SlotValueToString(slot) ==
    CASE slot.tag = "string" -> slot.chars
      [] slot.tag = "null" -> <<"n", "u", "l", "l">>
      [] OTHER -> <<"u", "n", "d", "e", "f", "i", "n", "e", "d">>

parseInt(slot) == parseIntChars(SlotValueToString(slot))

-----------------------------------------------------------------------------
(* The calls on response.  The narration of a Tell is a string. *)

Ask(speech, reprompt) ==
    [kind |-> "ask", speech |-> speech, speechType |-> "PlainText",
     reprompt |-> reprompt, cardTitle |-> "", cardContent |-> ""]

AskSSML(speech, reprompt) ==
    [kind |-> "ask", speech |-> speech, speechType |-> "SSML",
     reprompt |-> reprompt, cardTitle |-> "", cardContent |-> ""]

Tell(speech) ==
    [kind |-> "tell", speech |-> speech, speechType |-> "PlainText",
     reprompt |-> "", cardTitle |-> "", cardContent |-> ""]

TellWithCard(speech, cardTitle, cardContent) ==
    [kind |-> "tellWithCard", speech |-> speech, speechType |-> "PlainText",
     reprompt |-> "", cardTitle |-> cardTitle, cardContent |-> cardContent]

\* What the reply tells the host about the session: an ask keeps it open, a
\* tell ends it.
shouldEndSession(o) == o.kind \in {"tell", "tellWithCard"}

\* What the synchronous part of a handler did: the calls on response, the
\* requests given to http.get, and whether it ended by throwing.
Effect(outs, reqs, threw) == [outs |-> outs, reqs |-> reqs, threw |-> threw]

-----------------------------------------------------------------------------
(* handleWelcomeRequest, handleHelpRequest *)

whichStopPrompt == "For which Bus Stop would you like to request bus information ?"

handleWelcomeRequest ==
    Effect(<<AskSSML("<speak>Welcome to The Bus Honolulu Arrival Service. "
                        \o whichStopPrompt \o "</speak>",
                     "I can lead you through providing a stop "
                        \o "to get bus information, "
                        \o "or you can simply open The Bus Honolulu and ask a question like, "
                        \o "when will bus arrive at stop 255. "
                        \o whichStopPrompt)>>,
           <<>>, FALSE)

helpRepromptText == "Which stop would you like bus information for?"

\* the help handler as it would be had it told its text and ended the
\* session
handleHelpRequest_tell ==
    Effect(<<Tell("Or you can say exit. " \o helpRepromptText)>>, <<>>, FALSE)

handleHelpRequest ==
    Effect(<<Ask("I can lead you through providing a stop "
                    \o "to get bus information, "
                    \o "or you can simply open The Bus Honolulu and ask a question like, "
                    \o "when will bus arrive at stop 255. "
                    \o "Or you can say exit. "
                    \o helpRepromptText,
                 helpRepromptText)>>,
           <<>>, FALSE)

-----------------------------------------------------------------------------
(* The stop request handlers *)

\* makeTheBusCall: http.get(url, ...) is issued; its callbacks run later
makeTheBusCall(stopValue) == Effect(<<>>, <<stopValue.n>>, FALSE)

getFinalBusResponse(stopValue) == makeTheBusCall(stopValue)

\* responseCallback as it would be had the card been given the title twice
responseCallback_titled(speechOutput) ==
    TellWithCard(speechOutput, "TheBusHonolulu", "TheBusHonolulu")

\* the responseCallback getFinalBusResponse hands to makeTheBusCall
responseCallback(speechOutput) ==
    TellWithCard(speechOutput, "TheBusHonolulu", speechOutput)

handleStopDialogRequest(stop) ==
    IF stop.tag = "absent" \/ stop.tag \in {"null", "undefined"}
    THEN Effect(<<Ask("sorry, I did not hear the stop, please say that again",
                      "please say the stop again")>>, <<>>, FALSE)
    ELSE LET stopValue == parseInt(stop)
         IN  IF isNaN(stopValue)
             THEN Effect(<<Ask("sorry, I did not hear the stop, please say that again",
                               "please say the stop again")>>, <<>>, FALSE)
             ELSE getFinalBusResponse(stopValue)

handleOneshotBusRequest(stopSlot) ==
    IF stopSlot.tag = "absent"
    THEN Effect(<<>>, <<>>, TRUE)   \* stopSlot.value: TypeError on undefined
    ELSE LET stopValue == parseInt(stopSlot)
         IN  IF isNaN(stopValue)
             THEN Effect(<<Ask("sorry, I did not hear the bus stop, please say that again",
                               "please say the bus stop again")>>, <<>>, FALSE)
             ELSE getFinalBusResponse(stopValue)

\* TheBus.prototype.intentHandlers
IntentNames ==
    {"OneshotBusIntent", "DialogBusIntent", "AMAZON.HelpIntent",
     "AMAZON.StopIntent", "AMAZON.CancelIntent"}

\* the table as it would be had AMAZON.StopIntent been given the help
\* handler
intentHandlers_stopHelps(name, slot) ==
    CASE name = "OneshotBusIntent" -> handleOneshotBusRequest(slot)
      [] name = "DialogBusIntent" -> handleStopDialogRequest(slot)
      [] name = "AMAZON.HelpIntent" -> handleHelpRequest
      [] name = "AMAZON.StopIntent" -> handleHelpRequest
      [] name = "AMAZON.CancelIntent" -> Effect(<<Tell("Goodbye")>>, <<>>, FALSE)

intentHandlers(name, slot) ==
    CASE name = "OneshotBusIntent" -> handleOneshotBusRequest(slot)
      [] name = "DialogBusIntent" -> handleStopDialogRequest(slot)
      [] name = "AMAZON.HelpIntent" -> handleHelpRequest
      [] name = "AMAZON.StopIntent" -> Effect(<<Tell("Goodbye")>>, <<>>, FALSE)
      [] name = "AMAZON.CancelIntent" -> Effect(<<Tell("Goodbye")>>, <<>>, FALSE)

-----------------------------------------------------------------------------
(* The deserialized feed.  xml2js (explicitArray) delivers every child     *)
(* element as an array of its occurrences, so each field of stopTimes and  *)
(* of an arrival is a one-element array; the code relies on it             *)
(* (arrival.stopTime[0], routes[...].push).                                *)

UHManoa == <<"U", "H", " ", "M", "a", "n", "o", "a">>
Waikiki == <<"W", "a", "i", "k", "i", "k", "i">>

FeedStops == {"214", "55"}
FeedRoutes == {"1", "2", "constructor"}
FeedHeadsigns == {UHManoa, Waikiki}
FeedStopTimes == {"9:35 AM"}
FeedEstimated == {"0", "1"}
FeedCanceled == {"0", "1", "-1"}

ArrivalElements ==
    [route : {<<r>> : r \in FeedRoutes},
     headsign : {<<h>> : h \in FeedHeadsigns},
     stopTime : {<<t>> : t \in FeedStopTimes},
     estimated : {<<e>> : e \in FeedEstimated},
     canceled : {<<c>> : c \in FeedCanceled}]

SeqsUpTo(S, n) == UNION {[1..k -> S] : k \in 0..n}

\* result is null: the document did not parse, or the body was empty
NullResult == [kind |-> "null", stop |-> <<>>, hasArrival |-> FALSE, arrival |-> <<>>]
\* result has no stopTimes: the root element is something else
OtherRoot == [kind |-> "other", stop |-> <<>>, hasArrival |-> FALSE, arrival |-> <<>>]
\* <stopTimes> without any <arrival>: result.stopTimes.arrival is undefined
NoArrivals(stop) ==
    [kind |-> "stopTimes", stop |-> <<stop>>, hasArrival |-> FALSE, arrival |-> <<>>]
\* <stopTimes> with at least one <arrival>
Arrivals(stop, arrival) ==
    [kind |-> "stopTimes", stop |-> <<stop>>, hasArrival |-> TRUE, arrival |-> arrival]

\* the feeds of at most n arrivals, each one of elements
Feeds(n, elements) ==
    {NullResult, OtherRoot}
        \cup {NoArrivals(s) : s \in FeedStops}
        \cup {Arrivals(s, a) : s \in FeedStops,
                               a \in SeqsUpTo(elements, n) \ {<<>>}}

\* The arrivals a turn's fetch may deliver: every route of the feed, the one
\* named as a property that every object inherits included, and every value
\* of canceled, for one destination and estimated by GPS (neither of which
\* processXml branches on: ToBoolean).  processXml is run on all
\* ArrivalElements in XmlSpec.
FetchedElements ==
    {a \in ArrivalElements :
        /\ a.headsign = <<UHManoa>>
        /\ a.estimated = <<"1">>}

FetchedFeeds ==
    {f \in Feeds(MaxFeedLen, FetchedElements) : f.stop \in {<<>>, <<"214">>}}

-----------------------------------------------------------------------------
(* processXml *)

RECURSIVE ReplaceFirst(_, _, _)
\* String.prototype.replace(pattern string, replacement): first occurrence only
ReplaceFirst(s, pat, rep) ==
    IF Len(s) < Len(pat) THEN s
    ELSE IF SubSeq(s, 1, Len(pat)) = pat
         THEN rep \o SubSeq(s, Len(pat) + 1, Len(s))
         ELSE <<Head(s)>> \o ReplaceFirst(Tail(s), pat, rep)

\* ToNumber of a one-element array of a numeric string, as <= and == apply it
ToNumber(arr) ==
    CASE arr = <<"0">> -> 0
      [] arr = <<"1">> -> 1
      [] arr = <<"-1">> -> 0 - 1

\* ToBoolean of an array: every object is truthy, whatever it holds
ToBoolean(arr) == TRUE

\* The undefined global, and the object {} with its own keys
RoutesUndefined == [defined |-> FALSE, keys |-> {}, arr |-> <<>>, owner |-> <<>>]
RoutesEmpty == [defined |-> TRUE, keys |-> {}, arr |-> <<>>, owner |-> <<>>]

\* The properties every object inherits from Object.prototype that hold a
\* function: routes[name] is truthy for them though routes has no such key.
PrototypeFunctions ==
    {"constructor", "toString", "toLocaleString", "valueOf", "hasOwnProperty",
     "isPrototypeOf", "propertyIsEnumerable", "__defineGetter__",
     "__defineSetter__", "__lookupGetter__", "__lookupSetter__"}

\* routes.__proto__ is Object.prototype itself: truthy, without a length
PrototypeAccessor == "__proto__"

\* One call of the forEach callback on arrival i.  acc holds speechOutput,
\* routes, the arrival elements (routes[r] is the very array stopTime of the
\* element owner[r], so a push on it shows in that element), foundArrival
\* and foundCanceled.
forEachCallback(acc, i) ==
    LET arrival == acc.arrival[i]
        r == ArrayToString(arrival.route)
        rt == acc.routes
        \* routes[r] is an inherited function: its length is at most 4 and
        \* it has no push, so line 536 throws a TypeError
        pushThrows == r \notin rt.keys /\ r \in PrototypeFunctions
        pushed ==
            IF r \in rt.keys
            THEN IF Len(rt.arr[r]) <= 4
                 THEN [rt EXCEPT !.arr[r] = Append(@, arrival.stopTime[1])]
                 ELSE rt
            ELSE IF r \in PrototypeFunctions
            THEN rt
            ELSE IF r = PrototypeAccessor
            THEN rt   \* undefined <= 4 is false: nothing is pushed or assigned
            ELSE [rt EXCEPT !.keys = @ \cup {r},
                            !.arr = [k \in rt.keys \cup {r} |->
                                        IF k = r THEN arrival.stopTime ELSE rt.arr[k]],
                            !.owner = [k \in rt.keys \cup {r} |->
                                        IF k = r THEN i ELSE rt.owner[k]]]
        aliased ==
            IF r \in pushed.keys
            THEN [acc.arrival EXCEPT ![pushed.owner[r]].stopTime = pushed.arr[r]]
            ELSE acc.arrival
        improvedHeadsign ==
            Flatten(ReplaceFirst(arrival.headsign[1], <<"U", "H">>,
                                 <<"University of Hawaii">>))
        notCanceled == ToNumber(arrival.canceled) <= 0
        sentence ==
            IF notCanceled
            THEN <<" Route ", ArrayToString(arrival.route), " heading to ",
                   improvedHeadsign, " arriving at ",
                   ArrayToString(arrival.stopTime)>>
                 \o (IF ToBoolean(arrival.estimated)
                     THEN <<" estimated by GPS">>
                     ELSE <<" scheduled time no GPS">>)
                 \o (IF ToNumber(arrival.canceled) = 0 - 1
                     THEN <<" was canceled not canceled anymore">>
                     ELSE <<>>)
            ELSE <<>>
        foundArrival == IF notCanceled THEN 1 ELSE acc.foundArrival
        foundCanceled == IF notCanceled THEN acc.foundCanceled ELSE 1
        fallback ==
            IF foundArrival = 0
            THEN IF foundCanceled # 0
                 THEN <<" Sorry, only canceled arrivals were found.">>
                 ELSE <<" Sorry, no arrivals were returned.">>
            ELSE <<>>
    IN  IF pushThrows
        THEN [acc EXCEPT !.threw = TRUE]
        ELSE [speechOutput |-> acc.speechOutput \o sentence \o fallback \o <<".\n">>,
              routes |-> pushed,
              arrival |-> aliased,
              foundArrival |-> foundArrival,
              foundCanceled |-> foundCanceled,
              threw |-> FALSE]

RECURSIVE forEach(_, _)
forEach(acc, i) ==
    IF i > Len(acc.arrival) \/ acc.threw THEN acc
    ELSE forEach(forEachCallback(acc, i), i + 1)

\* processXml(data), with routes as the caller left it.  result is what the
\* parser hands to the callback for data.  Yields whether the call threw,
\* the returned speechOutput (its pieces), routes and the arrival elements
\* as the call leaves them.
processXml(result, rts) ==
    IF result.kind # "stopTimes"
    THEN \* result.stopTimes / result.stopTimes.arrival: TypeError
         [threw |-> TRUE, speechOutput |-> <<>>, routes |-> rts,
          arrival |-> result.arrival]
    ELSE IF ~result.hasArrival
    THEN [threw |-> FALSE,
          speechOutput |-> <<"Sorry, no arrivals found for stop",
                             ArrayToString(result.stop),
                             ".  Are you sure this is a valid stop?">>,
          routes |-> rts, arrival |-> result.arrival]
    ELSE LET done == forEach([speechOutput |-> <<"Here are the arrivals for ",
                                                 " bus stop ",
                                                 ArrayToString(result.stop), ".\n">>,
                              routes |-> rts,
                              arrival |-> result.arrival,
                              foundArrival |-> 0,
                              foundCanceled |-> 0,
                              threw |-> FALSE], 1)
         IN  [threw |-> done.threw,
              speechOutput |-> IF done.threw THEN <<>> ELSE done.speechOutput,
              routes |-> done.routes, arrival |-> done.arrival]

-----------------------------------------------------------------------------
(* The turns *)

\* the characters of a Stop slot: digits, a sign, a letter (which after 0
\* opens a hexadecimal number) and a white space character
SlotChars == {"0", "2", "-", "x", "\t"}

Slots ==
    {AbsentSlot, UndefSlot, NullSlot}
        \cup {StrSlot(s) : s \in SeqsUpTo(SlotChars, MaxSlotLen)}

NoTurn == [kind |-> "none", name |-> "", slot |-> AbsentSlot]
EventTurn(kind) == [kind |-> kind, name |-> "", slot |-> AbsentSlot]
IntentTurn(name, slot) == [kind |-> "Intent", name |-> name, slot |-> slot]

NoFetch ==
    [issued |-> FALSE, errorEmitted |-> FALSE, errorMessage |-> "",
     endEmitted |-> FALSE]

\* e.message of the errors a request may emit
ErrorMessages == {"socket hang up", "getaddrinfo ENOTFOUND api.thebus.org"}

\* the error text as it would be had the logged message been passed on
ErrorNarration_logged == "Communications error: " \o "socket hang up"

ErrorNarration == "Sorry there was an error contacting the bus service"

\* function (e) of .on('error'): e.message is logged, the callback gets the
\* fixed text
errorListener(message) == responseCallback(ErrorNarration)

\* Invocations that overlap in one process: each has its own request, its
\* own response and its own closure holding body; routes they share.
ConcurrentTurns == {"A", "B"}

\* A document the server sends reaches res.on('data') in two chunks.
ChunkParts == <<"head", "tail">>

Chunks(doc) == [k \in 1..Len(ChunkParts) |-> [doc |-> doc, part |-> ChunkParts[k]]]

\* parser.parseString(data, ...): the callback gets the document when data
\* is the whole of it, and a null result when data is empty, cut short or
\* no document at all
parseString(data) ==
    IF data # <<>> /\ data = Chunks(data[1].doc) THEN data[1].doc ELSE NullResult

\* [issued, doc, received, body, errorEmitted, endEmitted, threw, narration,
\* said]: the http.get of an invocation, the document the server answers
\* with, how many of its chunks have arrived, the var body of the response
\* callback, the events emitted, whether the 'end' listener threw, the
\* pieces of the speechOutput processXml returned and the calls made on
\* response
NoFlight ==
    [issued |-> FALSE, doc |-> NullResult, received |-> 0, body |-> <<>>,
     errorEmitted |-> FALSE, endEmitted |-> FALSE, threw |-> FALSE,
     narration |-> <<>>, said |-> <<>>]

NoFlights == [t \in ConcurrentTurns |-> NoFlight]

\* the 'data' listener as it would be had body been one variable of the
\* module, as routes is
onData_shared(fl, t, chunk) ==
    [u \in DOMAIN fl |-> [fl[u] EXCEPT !.body = Append(@, chunk)]]

\* res.on('data', function (chunk) { body += chunk; }) of the response of
\* invocation t: body is the var of that response's callback
onData(fl, t, chunk) == [fl EXCEPT ![t].body = Append(@, chunk)]

Init ==
    /\ turn = NoTurn
    /\ status = "idle"
    /\ fetch = NoFetch
    /\ body = ""
    /\ feed = NullResult
    /\ narration = <<>>
    /\ arrivalsAfter = <<>>
    /\ routes = RoutesUndefined
    /\ outcomes = <<>>
    /\ requests = <<>>
    /\ flights = NoFlights

\* The synchronous part of an invocation: the handler of turn t ran with
\* effect eff.  A request given to http.get stays in flight.
Handle(t, eff) ==
    /\ turn' = t
    /\ status' = IF eff.threw THEN "threw" ELSE "returned"
    /\ outcomes' = outcomes \o eff.outs
    /\ requests' = requests \o eff.reqs
    /\ fetch' = IF eff.reqs # <<>> THEN [NoFetch EXCEPT !.issued = TRUE] ELSE fetch
    /\ UNCHANGED <<body, feed, narration, arrivalsAfter, routes, flights>>

\* eventHandlers.onSessionStarted / onSessionEnded: log only
onSessionStarted ==
    /\ status = "idle"
    /\ Handle(EventTurn("SessionStarted"), Effect(<<>>, <<>>, FALSE))

onSessionEnded ==
    /\ status = "idle"
    /\ Handle(EventTurn("SessionEnded"), Effect(<<>>, <<>>, FALSE))

onLaunch ==
    /\ status = "idle"
    /\ Handle(EventTurn("Launch"), handleWelcomeRequest)

OneshotBusIntent ==
    /\ status = "idle"
    /\ \E slot \in Slots :
        Handle(IntentTurn("OneshotBusIntent", slot),
               intentHandlers("OneshotBusIntent", slot))

DialogBusIntent ==
    /\ status = "idle"
    /\ \E slot \in Slots :
        Handle(IntentTurn("DialogBusIntent", slot),
               intentHandlers("DialogBusIntent", slot))

HelpIntent ==
    /\ status = "idle"
    /\ Handle(IntentTurn("AMAZON.HelpIntent", AbsentSlot),
              intentHandlers("AMAZON.HelpIntent", AbsentSlot))

StopIntent ==
    /\ status = "idle"
    /\ Handle(IntentTurn("AMAZON.StopIntent", AbsentSlot),
              intentHandlers("AMAZON.StopIntent", AbsentSlot))

CancelIntent ==
    /\ status = "idle"
    /\ Handle(IntentTurn("AMAZON.CancelIntent", AbsentSlot),
              intentHandlers("AMAZON.CancelIntent", AbsentSlot))

\* intent names the interaction model may deliver that intentHandlers has
\* no entry for
OtherIntentNames == {"AMAZON.YesIntent", "RouteIntent"}

\* The dispatch of an intent request over intentHandlers.  A name without an
\* entry is left unhandled: nothing is said, nothing is raised.
onIntent(name, slot) ==
    IF name \in IntentNames
    THEN intentHandlers(name, slot)
    ELSE Effect(<<>>, <<>>, FALSE)

OtherIntent ==
    /\ status = "idle"
    /\ \E name \in OtherIntentNames :
        Handle(IntentTurn(name, AbsentSlot), onIntent(name, AbsentSlot))

\* res.on('data'): body += chunk.  Of the body the model keeps whether it is
\* still empty; what it parses to is chosen when 'end' is emitted.
ResponseData ==
    /\ fetch.issued /\ ~fetch.endEmitted /\ ~fetch.errorEmitted
    /\ body' = "data"
    /\ UNCHANGED <<turn, status, fetch, feed, narration, arrivalsAfter, routes,
                   outcomes, requests, flights>>

\* res.on('end'): routes = {}; processXml(body); callback(speechOutput).
\* An empty body parses to a null result.  'end' is also emitted when the
\* connection broke after the response had begun, that is after 'error'.
ResponseEnd ==
    /\ fetch.issued /\ ~fetch.endEmitted
    /\ \E result \in FetchedFeeds :
        /\ body = "" => result = NullResult
        /\ LET out == processXml(result, RoutesEmpty)
           IN  /\ feed' = result
               /\ routes' = out.routes
               /\ arrivalsAfter' = out.arrival
               /\ narration' = out.speechOutput
               /\ status' = IF out.threw THEN "threw" ELSE status
               /\ outcomes' = IF out.threw THEN outcomes
                              ELSE Append(outcomes,
                                          responseCallback(Flatten(out.speechOutput)))
    /\ fetch' = [fetch EXCEPT !.endEmitted = TRUE]
    /\ UNCHANGED <<turn, body, requests, flights>>

\* http.get(...).on('error'): callback(fixed text); no retry
RequestError ==
    /\ fetch.issued /\ ~fetch.errorEmitted /\ ~fetch.endEmitted
    /\ \E message \in ErrorMessages :
        /\ outcomes' = Append(outcomes, errorListener(message))
        /\ fetch' = [fetch EXCEPT !.errorEmitted = TRUE, !.errorMessage = message]
    /\ UNCHANGED <<turn, status, body, feed, narration, arrivalsAfter, routes,
                   requests, flights>>

\* The fetch of the turn will signal nothing more, or may not
FetchSettled == fetch.issued => (fetch.endEmitted \/ fetch.errorEmitted)

\* exports.handler is invoked again.  The globals of the module live on in
\* the process, unless an exception thrown in a callback ended it.
NextInvocation ==
    /\ status # "idle"
    /\ FetchSettled
    /\ turn' = NoTurn
    /\ status' = "idle"
    /\ fetch' = NoFetch
    /\ body' = ""
    /\ feed' = NullResult
    /\ narration' = <<>>
    /\ arrivalsAfter' = <<>>
    /\ routes' = IF status = "threw" /\ fetch.endEmitted THEN RoutesUndefined ELSE routes
    /\ outcomes' = <<>>
    /\ requests' = <<>>
    /\ UNCHANGED flights

Next ==
    \/ onSessionStarted
    \/ onSessionEnded
    \/ onLaunch
    \/ OneshotBusIntent
    \/ DialogBusIntent
    \/ HelpIntent
    \/ StopIntent
    \/ CancelIntent
    \/ OtherIntent
    \/ ResponseData
    \/ ResponseEnd
    \/ RequestError
    \/ NextInvocation

Spec == Init /\ [][Next]_vars

-----------------------------------------------------------------------------
(* processXml on its own: the body of the 'end' listener up to the call of *)
(* the callback, applied to every feed of up to MaxArrivals arrivals.      *)

TranslatedFeeds == Feeds(MaxArrivals, ArrivalElements)

XmlInit ==
    /\ turn = NoTurn
    /\ status = "parsed"
    /\ fetch = NoFetch
    /\ body = "data"
    /\ feed \in TranslatedFeeds
    /\ narration = <<>>
    /\ arrivalsAfter = <<>>
    /\ routes = RoutesUndefined
    /\ outcomes = <<>>
    /\ requests = <<>>
    /\ flights = NoFlights

\* routes = {}; var speechOutput = processXml(body);
Translate ==
    /\ status = "parsed"
    /\ LET out == processXml(feed, RoutesEmpty)
       IN  /\ routes' = out.routes
           /\ arrivalsAfter' = out.arrival
           /\ narration' = out.speechOutput
           /\ status' = IF out.threw THEN "threw" ELSE "translated"
    /\ UNCHANGED <<turn, fetch, body, feed, outcomes, requests, flights>>

XmlNext == Translate

XmlSpec == XmlInit /\ [][XmlNext]_vars

-----------------------------------------------------------------------------
(* Two stop requests in flight at once.  Each listener runs to completion: *)
(* the steps are the handler that issues the http.get and the 'data',      *)
(* 'end' and 'error' events of either request, in any order.  An exception *)
(* thrown by a listener ends the process.                                  *)

\* the arrival elements of the documents: both routes, so that two
\* documents, and two arrivals of one, can meet on a route
ConcurrentElements ==
    {a \in ArrivalElements :
        a.headsign = <<UHManoa>> /\ a.estimated = <<"1">> /\ a.canceled = <<"0">>}

ConcurrentFeeds ==
    {f \in Feeds(MaxConcurrentArrivals, ConcurrentElements) :
        f.stop \in {<<>>, <<"214">>}}

Running == \A t \in ConcurrentTurns : ~flights[t].threw

ConcurrentInit ==
    /\ turn = NoTurn
    /\ status = "idle"
    /\ fetch = NoFetch
    /\ body = ""
    /\ feed = NullResult
    /\ narration = <<>>
    /\ arrivalsAfter = <<>>
    /\ routes = RoutesUndefined
    /\ outcomes = <<>>
    /\ requests = <<>>
    /\ flights = NoFlights

\* a stop request with a valid Stop: makeTheBusCall issues the http.get, to
\* which the server will answer with doc
FlightRequest ==
    /\ Running
    /\ \E t \in ConcurrentTurns, doc \in ConcurrentFeeds :
        /\ ~flights[t].issued
        /\ flights' = [flights EXCEPT ![t] = [NoFlight EXCEPT !.issued = TRUE,
                                                              !.doc = doc]]
    /\ UNCHANGED <<turn, status, fetch, body, feed, narration, arrivalsAfter,
                   routes, outcomes, requests>>

\* res.on('data') of one of the requests: its next chunk
FlightData ==
    /\ Running
    /\ \E t \in ConcurrentTurns :
        /\ flights[t].issued /\ ~flights[t].endEmitted /\ ~flights[t].errorEmitted
        /\ flights[t].received < Len(ChunkParts)
        /\ flights' =
              [onData(flights, t, Chunks(flights[t].doc)[flights[t].received + 1])
                  EXCEPT ![t].received = @ + 1]
    /\ UNCHANGED <<turn, status, fetch, body, feed, narration, arrivalsAfter,
                   routes, outcomes, requests>>

\* res.on('end') of one of the requests: routes = {}; processXml(body);
\* callback(speechOutput)
FlightEnd ==
    /\ Running
    /\ \E t \in ConcurrentTurns :
        /\ flights[t].issued /\ ~flights[t].endEmitted
        /\ LET out == processXml(parseString(flights[t].body), RoutesEmpty)
           IN  /\ routes' = out.routes
               /\ flights' =
                     [flights EXCEPT
                        ![t].endEmitted = TRUE,
                        ![t].threw = out.threw,
                        ![t].narration = out.speechOutput,
                        ![t].said =
                            IF out.threw THEN @
                            ELSE Append(@, responseCallback(Flatten(out.speechOutput)))]
    /\ UNCHANGED <<turn, status, fetch, body, feed, narration, arrivalsAfter,
                   outcomes, requests>>

\* .on('error') of one of the requests
FlightError ==
    /\ Running
    /\ \E t \in ConcurrentTurns, message \in ErrorMessages :
        /\ flights[t].issued /\ ~flights[t].errorEmitted /\ ~flights[t].endEmitted
        /\ flights' = [flights EXCEPT ![t].errorEmitted = TRUE,
                                      ![t].said = Append(@, errorListener(message))]
    /\ UNCHANGED <<turn, status, fetch, body, feed, narration, arrivalsAfter,
                   routes, outcomes, requests>>

ConcurrentNext ==
    \/ FlightRequest
    \/ FlightData
    \/ FlightEnd
    \/ FlightError

ConcurrentSpec == ConcurrentInit /\ [][ConcurrentNext]_vars

-----------------------------------------------------------------------------
(* Vocabulary of the properties *)

BusIntents == {"OneshotBusIntent", "DialogBusIntent"}

\* the handler of a stop request has run in this invocation
BusTurn == status # "idle" /\ turn.kind = "Intent" /\ turn.name \in BusIntents

DecimalDigits == {"0", "1", "2", "3", "4", "5", "6", "7", "8", "9"}

\* the string is a base-10 integer literal: an optional minus sign and digits
IsDecimalInteger(s) ==
    LET d == IF s # <<>> /\ Head(s) = "-" THEN Tail(s) ELSE s
    IN  d # <<>> /\ \A i \in 1..Len(d) : d[i] \in DecimalDigits

RECURSIVE DecimalValue(_)
\* the value of a string of decimal digits
DecimalValue(d) ==
    IF d = <<>> THEN 0
    ELSE 10 * DecimalValue(SubSeq(d, 1, Len(d) - 1)) + DigitValue(d[Len(d)])

\* the slot holds a positive base-10 integer
PositiveIntegerSlot(slot) ==
    /\ slot.tag = "string"
    /\ IsDecimalInteger(slot.chars)
    /\ Head(slot.chars) # "-"
    /\ DecimalValue(slot.chars) > 0

MissingSlot(slot) == slot.tag \in {"absent", "undefined", "null"}

IsTell(o) == o.kind \in {"tell", "tellWithCard"}

RepromptSpeech == "sorry, I did not hear the stop, please say that again"
RepromptText == "please say the stop again"

IsReprompt(o) ==
    o.kind = "ask" /\ o.speech = RepromptSpeech /\ o.reprompt = RepromptText

-----------------------------------------------------------------------------
(* Properties *)

\* C1: for every Stop slot payload that is absent, null or non-numeric, the
\* OneshotBusIntent handler and the DialogBusIntent handler produce the same
\* re-prompt: Ask 'sorry, I did not hear the stop, please say that again'
\* with reprompt 'please say the stop again'.
C1_IdenticalReprompt ==
    (BusTurn /\ (MissingSlot(turn.slot) \/ ~IsDecimalInteger(turn.slot.chars)))
        => (Len(outcomes) = 1 /\ IsReprompt(outcomes[1]))

\* C2: for every positive-integer Stop value, on both stop-request paths, the
\* fetch is issued for that stop and every outcome of the turn is a
\* tellWithCard, never an Ask: one is produced on a transport error, and one
\* carrying the translated narration when the feed has a stopTimes element,
\* with or without arrivals.
C2_PositiveStopTells ==
    (BusTurn /\ PositiveIntegerSlot(turn.slot))
        => /\ requests = <<DecimalValue(turn.slot.chars)>>
           /\ \A i \in 1..Len(outcomes) : outcomes[i].kind = "tellWithCard"
           /\ fetch.errorEmitted => outcomes # <<>>
           /\ (fetch.endEmitted /\ feed.kind = "stopTimes")
                => /\ outcomes # <<>>
                   /\ outcomes[Len(outcomes)].speech = Flatten(narration)

\* C3: every fetch is keyed by a validated positive integer: for every Stop
\* string that is not a base-10 integer, or is one that is zero or negative,
\* both paths emit the re-prompt Ask and issue no network request.
C3_InvalidStopNoFetch ==
    (BusTurn /\ turn.slot.tag = "string" /\ ~PositiveIntegerSlot(turn.slot))
        => /\ requests = <<>>
           /\ Len(outcomes) = 1 /\ outcomes[1].kind = "ask"

\* C4: a stop-request turn whose Stop slot is absent, or present with a null
\* or undefined value, ends with a re-prompt Ask on both paths; it does not
\* fail without an outcome.
C4_MissingSlotAsks ==
    (BusTurn /\ MissingSlot(turn.slot))
        => /\ status # "threw"
           /\ requests = <<>>
           /\ Len(outcomes) = 1 /\ outcomes[1].kind = "ask"

\* C5: for a feed whose arrivals are all canceled (canceled = 1), the
\* narration of processXml holds the sentence 'Sorry, only canceled arrivals
\* were found.' exactly once, however many canceled records there are.
C5_CanceledFallbackOnce ==
    (/\ status = "translated"
     /\ feed.hasArrival
     /\ \A i \in 1..Len(feed.arrival) : feed.arrival[i].canceled = <<"1">>)
        => Count(narration, " Sorry, only canceled arrivals were found.") = 1

\* C6: no turn produces more than one outcome: at most one of response.ask,
\* response.tell, response.tellWithCard is called, whatever the order of the
\* fetch's events.
C6_AtMostOneOutcome == Len(outcomes) <= 1

\* C7: every Launch turn and every Intent turn is processed to completion:
\* once its handler is over and its fetch, if any, has signalled 'end' or
\* 'error', the turn has produced an outcome, for every slot payload and every
\* feed, malformed ones included.
C7_TurnCompletes ==
    (/\ status \in {"returned", "threw"}
     /\ turn.kind \in {"Launch", "Intent"}
     /\ FetchSettled)
        => outcomes # <<>>

\* C8: when the fetch fails at transport level, the callback produces a Tell
\* whose narration is exactly 'Sorry there was an error contacting the bus
\* service', and the turn has issued one network request and never a second.
C8_TransportFailureTell ==
    /\ Len(requests) <= 1
    /\ fetch.errorEmitted
        => /\ Len(requests) = 1
           /\ outcomes # <<>>
           /\ outcomes[1].kind = "tellWithCard"
           /\ outcomes[1].speech = "Sorry there was an error contacting the bus service"
           /\ outcomes[1].cardContent = outcomes[1].speech

\* C8 witness: the request of a stop-request turn failed and the Tell is out
C8_Witness ==
    /\ BusTurn
    /\ fetch.errorEmitted /\ ~fetch.endEmitted
    /\ Len(outcomes) = 1 /\ IsTell(outcomes[1])

\* C9: when the feed has a stopTimes element and no arrivals field, the
\* narration is exactly 'Sorry, no arrivals found for stop {stop}. Are you
\* sure this is a valid stop?' with the feed's own stop, and does not begin
\* with the 'Here are the arrivals for' prefix.
C9_NoArrivalsTemplate ==
    (status = "translated" /\ ~feed.hasArrival)
        => /\ Flatten(narration) =
                "Sorry, no arrivals found for stop " \o ArrayToString(feed.stop)
                    \o ". Are you sure this is a valid stop?"
           /\ narration[1] # "Here are the arrivals for "

\* C10: when the fetch succeeds and the deserialized feed is malformed (no
\* result, or no stopTimes in it), nothing is thrown: the turn ends with a
\* Tell carrying the fixed apology, as for a transport failure.
C10_MalformedFeedTells ==
    (BusTurn /\ fetch.endEmitted /\ feed.kind # "stopTimes")
        => /\ status # "threw"
           /\ outcomes # <<>>
           /\ IsTell(outcomes[Len(outcomes)])
           /\ outcomes[Len(outcomes)].speech = ErrorNarration

\* C11: a turn with intent AMAZON.StopIntent or AMAZON.CancelIntent, whatever
\* the turns before it did, has exactly one outcome, the Tell of "Goodbye"
\* with no card, which ends the session; it gives nothing to http.get.
C11_StopCancelGoodbye ==
    (status # "idle" /\ turn.kind = "Intent"
        /\ turn.name \in {"AMAZON.StopIntent", "AMAZON.CancelIntent"})
    => /\ status = "returned"
       /\ Len(outcomes) = 1
       /\ outcomes[1].kind = "tell"
       /\ outcomes[1].speech = "Goodbye"
       /\ outcomes[1].cardTitle = "" /\ outcomes[1].cardContent = ""
       /\ shouldEndSession(outcomes[1])
       /\ requests = <<>>
       /\ ~fetch.issued

\* a stop turn answered in a process whose earlier turn fetched arrivals
C11_Witness ==
    /\ turn.kind = "Intent" /\ turn.name = "AMAZON.StopIntent"
    /\ status = "returned"
    /\ outcomes = <<Tell("Goodbye")>>
    /\ routes.keys # {}

\* C12: a turn whose intent name is none of the five of intentHandlers ends
\* with an UnknownIntent error surfaced to the host (status "unsupported"):
\* it is neither a silent return without outcome nor an exception.
C12_UnknownIntentSurfaced ==
    (status # "idle" /\ turn.kind = "Intent" /\ turn.name \notin IntentNames)
    => status = "unsupported"

\* C13: what is said does not depend on the raw detail of an error.  A stop
\* request whose Stop slot is invalid or missing (anything but a positive
\* base-10 integer) does what the same request does with any other invalid
\* or missing Stop slot: it fetches what the other fetches and emits the
\* speech and the reprompt the other emits; and what the 'error' listener
\* says for the message of the error it got, it says for every other message.
C13_NoRawDetail ==
    /\ (BusTurn /\ ~PositiveIntegerSlot(turn.slot))
       => \A other \in Slots :
             LET said == intentHandlers(turn.name, other)
             IN  ~PositiveIntegerSlot(other)
                 => /\ said.reqs = requests
                    /\ Len(said.outs) = Len(outcomes)
                    /\ \A i \in 1..Len(outcomes) :
                          /\ said.outs[i].speech = outcomes[i].speech
                          /\ said.outs[i].reprompt = outcomes[i].reprompt
    /\ fetch.errorEmitted
       => \A other \in ErrorMessages :
             /\ errorListener(other).speech = outcomes[1].speech
             /\ errorListener(other).cardContent = outcomes[1].cardContent

\* C14: every narration that the fetch of a turn ends in, the text processXml
\* returned or the text of the 'error' listener, is told unchanged as the
\* speech and as the content of the card: speech = card = narration.
C14_SpeechIsCard ==
    \A i \in 1..Len(outcomes) :
        (fetch.issued /\ BusTurn)
        => LET S == IF i = 1 /\ fetch.errorEmitted
                    THEN "Sorry there was an error contacting the bus service"
                    ELSE Flatten(narration)
           IN  /\ IsTell(outcomes[i])
               /\ outcomes[i].speech = S
               /\ outcomes[i].cardContent = S

\* the narration of a feed with an arrival was told
C14_Witness ==
    /\ BusTurn /\ fetch.endEmitted /\ feed.hasArrival
    /\ Len(outcomes) = 1
    /\ outcomes[1].cardContent = Flatten(narration)
    /\ Len(narration) > 4

\* The destination as it is to be said: "UH" spoken as the university's name.
SpokenHeadsign(h) ==
    CASE h = UHManoa -> "University of Hawaii Manoa"
      [] h = Waikiki -> "Waikiki"

\* pieces occurs in narr as consecutive pieces
ContainsPieces(narr, pieces) ==
    \E k \in 0..(Len(narr) - Len(pieces)) :
        \A j \in 1..Len(pieces) : narr[k + j] = pieces[j]

\* the sentence of the i-th arrival of the feed, closed by its full stop
\* right after the GPS clause
EstimatedSentence(i) ==
    <<" Route ", feed.arrival[i].route[1],
      " heading to ", SpokenHeadsign(feed.arrival[i].headsign[1]),
      " arriving at ", feed.arrival[i].stopTime[1],
      " estimated by GPS", ".\n">>

\* C15: when the fetch of a stop request delivered a feed with arrivals,
\* every arrival that is not canceled (canceled 0 or -1) and is estimated is
\* told as "Route R heading to H' arriving at T estimated by GPS.", H' being
\* the headsign with "UH" spoken as "University of Hawaii", in a Tell whose
\* speech is the narration.
C15_EstimatedSentence ==
    (BusTurn /\ fetch.endEmitted /\ feed.hasArrival)
    => \A i \in 1..Len(feed.arrival) :
          (feed.arrival[i].canceled[1] \in {"0", "-1"}
              /\ feed.arrival[i].estimated[1] = "1")
          => /\ outcomes # <<>>
             /\ IsTell(outcomes[Len(outcomes)])
             /\ outcomes[Len(outcomes)].speech = Flatten(narration)
             /\ ContainsPieces(narration, EstimatedSentence(i))

\* the arrivals of the feed that are not canceled (canceled 0 or -1) and
\* whose estimated flag is e
NonCanceledWith(e) ==
    {i \in 1..Len(feed.arrival) :
        feed.arrival[i].canceled[1] \in {"0", "-1"}
            /\ feed.arrival[i].estimated[1] = e}

\* C16: the GPS clause of a sentence follows the estimated flag of its
\* record as the parser delivers it: the narration says "estimated by GPS"
\* once for each narrated record with estimated = 1 and "scheduled time no
\* GPS" once for each narrated record with estimated = 0.
C16_GpsClauseFollowsFlag ==
    (status = "translated" /\ feed.hasArrival)
    => /\ Count(narration, " estimated by GPS") = Cardinality(NonCanceledWith("1"))
       /\ Count(narration, " scheduled time no GPS") = Cardinality(NonCanceledWith("0"))

\* narr with either GPS clause read as the same clause
GpsBlind(narr) ==
    [k \in 1..Len(narr) |->
        IF narr[k] = " scheduled time no GPS" THEN " estimated by GPS" ELSE narr[k]]

\* the one sentence of an arrival that is told: with the clause of an
\* arrival that is not canceled any more when canceled = -1
ArrivalSentence(a) ==
    <<" Route ", a.route[1], " heading to ", SpokenHeadsign(a.headsign[1]),
      " arriving at ", a.stopTime[1], " estimated by GPS">>
    \o (IF a.canceled[1] = "-1" THEN <<" was canceled not canceled anymore">>
        ELSE <<>>)
    \o <<".\n">>

\* the sentences of the arrivals from the i-th on, in the order of the feed,
\* a canceled arrival giving none
RECURSIVE SentencesFrom(_)
SentencesFrom(i) ==
    IF i > Len(feed.arrival) THEN <<>>
    ELSE (IF feed.arrival[i].canceled[1] = "1" THEN <<>>
          ELSE ArrivalSentence(feed.arrival[i]))
         \o SentencesFrom(i + 1)

\* C17: for a feed with arrivals of which some is not canceled, the
\* narration is the prefix naming the stop followed by exactly one sentence
\* for each record with canceled = 0 or -1, in the order of the feed; a
\* record with canceled = 1 adds no text, one with canceled = -1 has the
\* clause that it was canceled.  (Either GPS clause is accepted.)
C17_OneSentencePerArrival ==
    (status = "translated" /\ feed.hasArrival
        /\ \E i \in 1..Len(feed.arrival) : feed.arrival[i].canceled[1] # "1")
    => GpsBlind(narration)
         = <<"Here are the arrivals for ", " bus stop ", feed.stop[1], ".\n">>
              \o SentencesFrom(1)

\* the two fallback sentences of processXml
FallbackSentences ==
    {" Sorry, only canceled arrivals were found.",
     " Sorry, no arrivals were returned."}

\* C18: when the feed has arrivals and no sentence of an arrival is told,
\* the narration closes with a fallback sentence and holds exactly one
\* fallback sentence in all; it is "Sorry, no arrivals were returned." when
\* no canceled record was seen.
C18_ExactlyOneFallback ==
    (status = "translated" /\ feed.hasArrival /\ Count(narration, " Route ") = 0)
    => /\ Len(narration) >= 2
       /\ narration[Len(narration) - 1] \in FallbackSentences
       /\ narration[Len(narration)] = ".\n"
       /\ Cardinality({k \in 1..Len(narration) :
                            narration[k] \in FallbackSentences}) = 1
       /\ (\A i \in 1..Len(feed.arrival) : feed.arrival[i].canceled[1] # "1")
            => Count(narration, " Sorry, no arrivals were returned.") = 1

\* what a Launch turn and a help turn have done once their handler returned:
\* one ask with a reprompt, which keeps the session open, and no fetch; the
\* ask of the help turn is the fixed pair of texts
LaunchAndHelpAsk ==
    /\ (status # "idle" /\ turn.kind = "Launch")
       => /\ Len(outcomes) = 1
          /\ outcomes[1].kind = "ask" /\ ~shouldEndSession(outcomes[1])
          /\ outcomes[1].reprompt # ""
          /\ requests = <<>> /\ ~fetch.issued
    /\ (status # "idle" /\ turn.kind = "Intent" /\ turn.name = "AMAZON.HelpIntent")
       => /\ Len(outcomes) = 1
          /\ outcomes[1].kind = "ask" /\ ~shouldEndSession(outcomes[1])
          /\ outcomes[1].speech =
                "I can lead you through providing a stop to get bus information, "
                \o "or you can simply open The Bus Honolulu and ask a question like, "
                \o "when will bus arrive at stop 255. Or you can say exit. "
                \o "Which stop would you like bus information for?"
          /\ outcomes[1].reprompt = "Which stop would you like bus information for?"
          /\ requests = <<>> /\ ~fetch.issued

\* a step that handles SessionStarted or SessionEnded leaves the outcomes,
\* the requests, the fetch and the globals of the process as they were
LifecycleChangesNothing ==
    (status = "idle" /\ turn'.kind \in {"SessionStarted", "SessionEnded"})
    => /\ status' = "returned"
       /\ outcomes' = <<>> /\ outcomes' = outcomes
       /\ UNCHANGED <<requests, fetch, body, feed, narration, arrivalsAfter, routes>>

\* C19: Launch and AMAZON.HelpIntent each answer with one Ask, reprompt
\* included, and fetch nothing; the Ask of help is the same pair of texts
\* whatever the turns before it did; SessionStarted and SessionEnded produce
\* no outcome and change no state.
C19_AskAndLifecycle == [](LaunchAndHelpAsk) /\ [][LifecycleChangesNothing]_vars

\* a help turn answered in a process whose earlier turn fetched arrivals
C19_Witness ==
    /\ turn.kind = "Intent" /\ turn.name = "AMAZON.HelpIntent"
    /\ status = "returned"
    /\ Len(outcomes) = 1 /\ outcomes[1].kind = "ask"
    /\ routes.keys # {}

\* the arrivals of the feed on route r
OnRoute(r) == {i \in 1..Len(feed.arrival) : feed.arrival[i].route[1] = r}

\* C20: the aggregation of stop times by route belongs to one fetch and its
\* translation: after processXml it holds the routes and times of that feed
\* and nothing else, and when the next invocation begins none of it is left
\* in the state the invocations share.
C20_AggregationScoped ==
    /\ (fetch.endEmitted /\ feed.hasArrival /\ status # "threw")
       => /\ routes.keys = {feed.arrival[i].route[1] : i \in 1..Len(feed.arrival)}
          /\ \A r \in routes.keys : Len(routes.arr[r]) = Cardinality(OnRoute(r))
    /\ status = "idle" => routes.keys = {}

\* what processXml returns for invocation t when it runs alone: on the
\* chunks of its own document that arrived, with nothing aggregated before
Alone(t) ==
    processXml(parseString(SubSeq(Chunks(flights[t].doc), 1, flights[t].received)),
               RoutesEmpty)

\* C21: with two stop requests in flight at once, whatever the order of
\* their 'data', 'end' and 'error' events, the narration of each is the one
\* it has when run alone on the same feed, and so is what it says: the
\* routes they share do not alter the text.
C21_NarrationAsAlone ==
    \A t \in ConcurrentTurns :
        flights[t].endEmitted
        => /\ flights[t].threw = Alone(t).threw
           /\ ~flights[t].threw
              => /\ flights[t].narration = Alone(t).speechOutput
                 /\ flights[t].said # <<>>
                 /\ flights[t].said[Len(flights[t].said)].speech
                       = Flatten(Alone(t).speechOutput)

\* A has narrated two arrivals of one route while B, whose document holds
\* an arrival of that route, is between its two chunks; routes holds what A
\* aggregated
C21_Witness ==
    /\ flights["A"].endEmitted /\ ~flights["A"].threw
    /\ Len(flights["A"].doc.arrival) = 2
    /\ flights["A"].doc.arrival[1].route = flights["A"].doc.arrival[2].route
    /\ Count(flights["A"].narration, " Route ") = 2
    /\ flights["B"].issued /\ ~flights["B"].endEmitted /\ flights["B"].received = 1
    /\ flights["B"].doc.hasArrival
    /\ flights["B"].doc.arrival[1].route = flights["A"].doc.arrival[1].route
    /\ routes.keys # {}

\* C22: processXml does not mutate the arrival records of the feed: when it
\* has returned, every field of every record, the stopTime of the first
\* record of each route among them, is as the parser delivered it.
C22_ArrivalsNotMutated ==
    (status = "translated" /\ feed.hasArrival)
    => /\ Len(arrivalsAfter) = Len(feed.arrival)
       /\ \A i \in 1..Len(feed.arrival) : arrivalsAfter[i] = feed.arrival[i]

====
